---------------------------- MODULE Spec2Model ----------------------------
(***************************************************************************)
(* Model of env-to-toml (src/src/lib.rs): Config::from_env, Config::to_toml *)
(* and env_to_toml.                                                        *)
(*                                                                         *)
(* A string is a sequence of one-character strings.  Option<String> is a   *)
(* record [some, v].  The process environment is a sequence of             *)
(* [name, value] pairs with distinct names, in the order env::vars()       *)
(* enumerates them.  A HashMap is a function whose DOMAIN is its key set;  *)
(* its iteration order is not fixed by the program.                        *)
(***************************************************************************)
EXTENDS Naturals, Sequences, FiniteSets

\* ------------------------------------------------------------------ bounds
MaxNameLen == 4
MaxPrefixLen == 1
MaxVars == 2

\* -------------------------------------------------------------- characters
NonUtf8 == "<FF>"
NameChars == {"A", "a", "_"}
UpperCase == <<"A", "V">>
LowerCase == <<"a", "v">>

StrsUpTo(chars, n) == UNION {[1..k -> chars] : k \in 0..n}

Names == StrsUpTo(NameChars, MaxNameLen) \ {<<>>}
Prefixes == StrsUpTo(NameChars, MaxPrefixLen)
Values == {<<"V">>, <<"\"">>, <<NonUtf8>>}

\* Names used for environments of several variables.
Catalogue ==
    { <<"A", "a">>,
      <<"A", "A">>,
      <<"a">>,
      <<"A", "a", "_", "_", "a">>,
      <<"A", "A", "_", "_", "a">>,
      <<"A", "a", "_", "_", "a", "_", "_", "a">> }

Entries(names) == [name : names, value : Values]

DistinctNames(e) ==
    \A i, j \in 1..Len(e) : e[i].name = e[j].name => i = j

EnvsOne == StrsUpTo(Entries(Names), 1)
EnvsMany == {e \in StrsUpTo(Entries(Catalogue), MaxVars) : DistinctNames(e)}
Envs == EnvsOne \cup EnvsMany

\* ------------------------------------------------------------ Option<String>
None == [some |-> FALSE, v |-> <<>>]
Some(s) == [some |-> TRUE, v |-> s]

\* ------------------------------------------------------------ str functions
LowerChar(c) ==
    IF \E i \in 1..Len(UpperCase) : UpperCase[i] = c
    THEN LowerCase[CHOOSE i \in 1..Len(UpperCase) : UpperCase[i] = c]
    ELSE c

\* str::to_lowercase
to_lowercase(s) == [i \in 1..Len(s) |-> LowerChar(s[i])]

\* variant: the prefix is compared without regard to case
strip_prefix_ignore_case(key, prefix) ==
    IF Len(prefix) <= Len(key)
       /\ \A i \in 1..Len(prefix) : LowerChar(key[i]) = LowerChar(prefix[i])
    THEN Some([i \in 1..(Len(key) - Len(prefix)) |-> key[i + Len(prefix)]])
    ELSE None

\* str::strip_prefix
strip_prefix(key, prefix) ==
    IF Len(prefix) <= Len(key)
       /\ \A i \in 1..Len(prefix) : key[i] = prefix[i]
    THEN Some([i \in 1..(Len(key) - Len(prefix)) |-> key[i + Len(prefix)]])
    ELSE None

Delimiter == <<"_", "_">>

RECURSIVE SplitFrom(_, _)
SplitFrom(s, cur) ==
    IF s = <<>> THEN <<cur>>
    ELSE IF Len(s) >= Len(Delimiter) /\ SubSeq(s, 1, Len(Delimiter)) = Delimiter
         THEN <<cur>> \o SplitFrom(SubSeq(s, Len(Delimiter) + 1, Len(s)), <<>>)
         ELSE SplitFrom(Tail(s), Append(cur, Head(s)))

\* str::split("__"): leftmost, non-overlapping matches
split(s) == SplitFrom(s, <<>>)

saturating_sub(a, b) == IF a >= b THEN a - b ELSE 0

\* slice::split_at
split_at(parts, mid) ==
    <<SubSeq(parts, 1, mid), SubSeq(parts, mid + 1, Len(parts))>>

RECURSIVE join(_, _)
join(parts, sep) ==
    IF parts = <<>> THEN <<>>
    ELSE IF Len(parts) = 1 THEN parts[1]
    ELSE parts[1] \o sep \o join(Tail(parts), sep)


\* ------------------------------------------------------------------- state
VARIABLES
    prefix,     \* the argument of env_to_toml
    env,        \* the process environment, in enumeration order
    pc,         \* position of the running call
    idx,        \* number of variables the loop of from_env has consumed
    config,     \* the Config under construction: [global, sections]
    built,      \* history: the ConfigItems constructed, with their env index
    emitted,    \* history: the pieces to_toml pushed onto result, in order
    result,     \* the String built by to_toml
    returned    \* history: the values returned by the calls made so far

vars == <<prefix, env, pc, idx, config, built, emitted, result, returned>>

\* Config::default()
DefaultConfig == [global |-> <<>>, sections |-> [s \in {} |-> <<>>]]

\* env::vars() yields (String, String); a pair that is not valid Unicode
\* makes the iterator panic.
IsUnicode(s) == \A i \in 1..Len(s) : s[i] # NonUtf8

\* lines 25-38: the ConfigItem built from a stripped key and a value
NewConfigItem(stripped_key, value) ==
    LET normalized_key == to_lowercase(stripped_key)
        parts == split(normalized_key)
        sp == split_at(parts, saturating_sub(Len(parts), 1))
        section == join(sp[1], <<".">>)
    IN  [section |-> IF section = <<>> THEN None ELSE Some(section),
         key |-> join(sp[2], <<>>),
         value |-> value]

\* cfg with vec as the vector of section k
WithSection(cfg, k, vec) ==
    [cfg EXCEPT !.sections =
        [s \in (DOMAIN cfg.sections) \cup {k} |->
            IF s = k THEN vec ELSE cfg.sections[s]]]

SectionVec(cfg, k) ==
    IF k \in DOMAIN cfg.sections THEN cfg.sections[k] ELSE <<>>

\* items with the item of the same key replaced by item, or item appended
Overwrite(items, item) ==
    IF \E k \in 1..Len(items) : items[k].key = item.key
    THEN [k \in 1..Len(items) |->
            IF items[k].key = item.key THEN item ELSE items[k]]
    ELSE Append(items, item)

\* variant: a later item replaces an earlier one of the same key
InsertItemOverwrite(cfg, item) ==
    IF item.section.some
    THEN WithSection(cfg, item.section.v,
                     Overwrite(SectionVec(cfg, item.section.v), item))
    ELSE [cfg EXCEPT !.global = Overwrite(cfg.global, item)]

\* variant: the sections map is keyed by the item's key
InsertItemByKey(cfg, item) ==
    IF item.section.some
    THEN WithSection(cfg, item.key, Append(SectionVec(cfg, item.key), item))
    ELSE [cfg EXCEPT !.global = Append(cfg.global, item)]

\* variant: the item is inserted at the front of its vector
InsertItemFront(cfg, item) ==
    IF item.section.some
    THEN WithSection(cfg, item.section.v,
                     <<item>> \o SectionVec(cfg, item.section.v))
    ELSE [cfg EXCEPT !.global = <<item>> \o cfg.global]

\* lines 40-48: push the item onto its section's vector or onto global
InsertItem(cfg, item) ==
    IF item.section.some
    THEN LET k == item.section.v
             old == IF k \in DOMAIN cfg.sections THEN cfg.sections[k] ELSE <<>>
         IN  [cfg EXCEPT !.sections =
                 [s \in (DOMAIN cfg.sections) \cup {k} |->
                     IF s = k THEN Append(old, item) ELSE cfg.sections[s]]]
    ELSE [cfg EXCEPT !.global = Append(cfg.global, item)]

\* format!("{} = \"{}\"\n", item.key, item.value)
FormatItem(item) ==
    item.key \o <<" ", "=", " ", "\"">> \o item.value \o <<"\"", "\n">>

\* format!("\n[{}]\n", section)
FormatHeader(section) == <<"\n", "[">> \o section \o <<"]", "\n">>

\* lines 59-61 and 66-68: the pieces pushed for a vector of items
ItemPieces(items) ==
    [i \in 1..Len(items) |-> [kind |-> "item", text |-> FormatItem(items[i])]]

\* variant: the header is pushed inside the loop over the section's items
RECURSIVE SectionPiecesHeaderPerItem(_, _)
SectionPiecesHeaderPerItem(cfg, order) ==
    IF order = <<>> THEN <<>>
    ELSE LET items == cfg.sections[Head(order)]
             one(i) == << [kind |-> "header", text |-> FormatHeader(Head(order))],
                          [kind |-> "item", text |-> FormatItem(items[i])] >>
             RECURSIVE all(_)
             all(i) == IF i > Len(items) THEN <<>> ELSE one(i) \o all(i + 1)
         IN  all(1) \o SectionPiecesHeaderPerItem(cfg, Tail(order))

\* lines 64-69: the pieces pushed for the sections, iterated in `order`
RECURSIVE SectionPieces(_, _)
SectionPieces(cfg, order) ==
    IF order = <<>> THEN <<>>
    ELSE <<[kind |-> "header", text |-> FormatHeader(Head(order))]>>
         \o ItemPieces(cfg.sections[Head(order)])
         \o SectionPieces(cfg, Tail(order))

\* variant: a separating blank line is pushed after the global items even
\* when there is no section
ToTomlPiecesLeadingBlank(cfg, order) ==
    ItemPieces(cfg.global)
    \o <<[kind |-> "blank", text |-> <<"\n">>]>>
    \o SectionPieces(cfg, order)

\* the push_str calls of to_toml, for one iteration order of the HashMap
ToTomlPieces(cfg, order) == ItemPieces(cfg.global) \o SectionPieces(cfg, order)

RECURSIVE Concat(_)
Concat(pieces) ==
    IF pieces = <<>> THEN <<>> ELSE Head(pieces).text \o Concat(Tail(pieces))

\* the orders in which a HashMap with key set S may be iterated
IterationOrders(S) ==
    {q \in [1..Cardinality(S) -> S] : \A i, j \in DOMAIN q : q[i] = q[j] => i = j}

Ok(s) == [ok |-> TRUE, v |-> s]

\* ----------------------------------------------------------------- actions
Init ==
    /\ prefix \in Prefixes
    /\ env \in Envs
    /\ pc = "from_env"
    /\ idx = 0
    /\ config = DefaultConfig
    /\ built = <<>>
    /\ emitted = <<>>
    /\ result = <<>>
    /\ returned = <<>>

\* one iteration of the loop of from_env over a pair that is valid Unicode
FromEnvStep ==
    /\ pc = "from_env"
    /\ idx < Len(env)
    /\ LET key == env[idx + 1].name
           value == env[idx + 1].value
           stripped == strip_prefix(key, prefix)
       IN  /\ IsUnicode(key) /\ IsUnicode(value)
           /\ IF stripped.some
              THEN LET config_item == NewConfigItem(stripped.v, value)
                   IN  /\ config' = InsertItem(config, config_item)
                       /\ built' = Append(built, [i |-> idx + 1, item |-> config_item])
              ELSE UNCHANGED <<config, built>>
    /\ idx' = idx + 1
    /\ UNCHANGED <<prefix, env, pc, emitted, result, returned>>

\* the iterator of env::vars() meets a pair that is not valid Unicode
VarsPanic ==
    /\ pc = "from_env"
    /\ idx < Len(env)
    /\ ~(IsUnicode(env[idx + 1].name) /\ IsUnicode(env[idx + 1].value))
    /\ pc' = "panic"
    /\ UNCHANGED <<prefix, env, idx, config, built, emitted, result, returned>>

\* the loop ends and from_env returns config
FromEnvReturn ==
    /\ pc = "from_env"
    /\ idx = Len(env)
    /\ pc' = "to_toml"
    /\ UNCHANGED <<prefix, env, idx, config, built, emitted, result, returned>>

\* Config::to_toml
ToToml ==
    /\ pc = "to_toml"
    /\ \E order \in IterationOrders(DOMAIN config.sections) :
          /\ emitted' = ToTomlPieces(config, order)
          /\ result' = Concat(ToTomlPieces(config, order))
    /\ pc' = "return"
    /\ UNCHANGED <<prefix, env, idx, config, built, returned>>

\* env_to_toml returns Ok(config.to_toml())
Return ==
    /\ pc = "return"
    /\ returned' = Append(returned, Ok(result))
    /\ pc' = "done"
    /\ UNCHANGED <<prefix, env, idx, config, built, emitted, result>>

\* env_to_toml is called a second time, environment unchanged
CallAgain ==
    /\ pc = "done"
    /\ Len(returned) = 1
    /\ pc' = "from_env"
    /\ idx' = 0
    /\ config' = DefaultConfig
    /\ built' = <<>>
    /\ emitted' = <<>>
    /\ result' = <<>>
    /\ UNCHANGED <<prefix, env, returned>>

Next ==
    \/ FromEnvStep
    \/ VarsPanic
    \/ FromEnvReturn
    \/ ToToml
    \/ Return
    \/ CallAgain

Spec == Init /\ [][Next]_vars

\* -------------------------------------------------------------- properties
\* p is a leading substring of s, character for character
IsPrefix(p, s) == Len(p) <= Len(s) /\ SubSeq(s, 1, Len(p)) = p

\* the variables of the environment whose name starts with the prefix
Matching == {i \in 1..Len(env) : IsPrefix(prefix, env[i].name)}

\* the name of variable i with the prefix removed
Remainder(i) == SubSeq(env[i].name, Len(prefix) + 1, Len(env[i].name))

\* the path components of variable i: its lowercased remainder split on "__"
Components(i) == split(to_lowercase(Remainder(i)))

DerivedItem(i) == NewConfigItem(Remainder(i), env[i].value)

LineText(key, value) == key \o <<" ", "=", " ", "\"">> \o value \o <<"\"", "\n">>
HeaderText(section) == <<"\n", "[">> \o section \o <<"]", "\n">>

Range(q) == {q[k] : k \in DOMAIN q}

RECURSIVE SumLen(_, _)
SumLen(f, S) ==
    IF S = {} THEN 0
    ELSE LET s == CHOOSE x \in S : TRUE IN Len(f[s]) + SumLen(f, S \ {s})

ItemCount(cfg) == Len(cfg.global) + SumLen(cfg.sections, DOMAIN cfg.sections)

ConfigItems(cfg) ==
    Range(cfg.global) \cup UNION {Range(cfg.sections[s]) : s \in DOMAIN cfg.sections}

\* the items derived from the first n variables that fall into group g,
\* in enumeration order
RECURSIVE ExpectedGroup(_, _)
ExpectedGroup(g, n) ==
    IF n = 0 THEN <<>>
    ELSE IF n \in Matching /\ DerivedItem(n).section = g
         THEN Append(ExpectedGroup(g, n - 1), DerivedItem(n))
         ELSE ExpectedGroup(g, n - 1)

LineTexts(items) == [k \in 1..Len(items) |-> LineText(items[k].key, items[k].value)]
Texts(pieces) == [k \in 1..Len(pieces) |-> pieces[k].text]

Finished == pc \in {"return", "done"}

HeaderPos == {k \in 1..Len(emitted) : emitted[k].kind = "header"}
ItemPos == {k \in 1..Len(emitted) : emitted[k].kind = "item"}

\* the end of the run of pieces that starts right after position k
BlockEnd(k) ==
    IF \E h \in HeaderPos : h > k
    THEN (CHOOSE h \in HeaderPos : h > k /\ \A g \in HeaderPos : g > k => h <= g) - 1
    ELSE Len(emitted)

\* the pieces emitted before the first header (k = 0) or under header k
Block(k) == SubSeq(emitted, k + 1, BlockEnd(k))

\* ------------------------------------------------------------------ claims

\* C1: every item built by from_env has the last path component as its key;
\* its section is None exactly when there is no preceding component, and is
\* otherwise Some(preceding components joined with "."), the item lying in
\* sections[that path] (in global when there is none).
C1_DerivationRule ==
    \A b \in Range(built) :
        LET parts == Components(b.i)
            n == Len(parts)
            path == join(SubSeq(parts, 1, n - 1), <<".">>)
        IN  /\ b.item.key = parts[n]
            /\ (b.item.section = None) <=> (n = 1)
            /\ n = 1 => b.item \in Range(config.global)
            /\ n > 1 => /\ b.item.section = Some(path)
                        /\ path \in DOMAIN config.sections
                        /\ b.item \in Range(config.sections[path])

\* C2: a variable whose name does not start with the prefix contributes no
\* item to the Config and no line to the output: every item and every line
\* comes from a matching variable, and there are no more of them than
\* matching variables.
C2_NonMatchingContributeNothing ==
    /\ \A b \in Range(built) : b.i \in Matching
    /\ ItemCount(config) <= Cardinality(Matching \cap (1..idx))
    /\ \A it \in ConfigItems(config) :
          \E i \in Matching \cap (1..idx) : it = DerivedItem(i)
    /\ Finished =>
          /\ Cardinality(ItemPos) <= Cardinality(Matching)
          /\ \A k \in ItemPos : \E i \in Matching :
                emitted[k].text = LineText(DerivedItem(i).key, env[i].value)

C2_Witness ==
    /\ pc = "done"
    /\ Matching # {}
    /\ Matching # 1..Len(env)
    /\ ItemPos # {}

\* C3: the key/value lines of the output correspond one-to-one to the
\* matching variables: each yields exactly one line key = "value" with its
\* value unchanged, and variables that normalize to the same (section, key)
\* each keep their line.
C3_OneLinePerMatchingVariable ==
    Finished =>
        /\ Cardinality(ItemPos) = Cardinality(Matching)
        /\ \A i \in Matching :
              LET t == LineText(DerivedItem(i).key, env[i].value)
              IN  Cardinality({k \in ItemPos : emitted[k].text = t})
                  = Cardinality({j \in Matching :
                        LineText(DerivedItem(j).key, env[j].value) = t})

C3_Witness ==
    /\ pc = "done"
    /\ \E i, j \in Matching :
          /\ i # j
          /\ DerivedItem(i).section = DerivedItem(j).section
          /\ DerivedItem(i).key = DerivedItem(j).key
          /\ env[i].value = <<"\"">>
          /\ Cardinality(ItemPos) = Cardinality(Matching)

\* C4: the output is all global items first, then for each distinct section
\* exactly one block: a blank line, the header [section] and that section's
\* items, at least one.  Lines before the first header are global items and
\* lines under a header are items whose section is that header.
C4_Layout ==
    Finished =>
        /\ result = join(Texts(emitted), <<>>)
        /\ Texts(Block(0)) = LineTexts(config.global)
        /\ \A it \in Range(config.global) : it.section = None
        /\ Cardinality(HeaderPos) = Cardinality(DOMAIN config.sections)
        /\ \A s \in DOMAIN config.sections :
              Cardinality({h \in HeaderPos : emitted[h].text = HeaderText(s)}) = 1
        /\ \A h \in HeaderPos : \E s \in DOMAIN config.sections :
              /\ emitted[h].text = HeaderText(s)
              /\ Block(h) # <<>>
              /\ Texts(Block(h)) = LineTexts(config.sections[s])
              /\ \A it \in Range(config.sections[s]) : it.section = Some(s)

C4_Witness ==
    /\ pc = "done"
    /\ Block(0) # <<>>
    /\ HeaderPos # {}

\* C5: at every step of from_env and in the Config it returns, every item in
\* global has section None and every item in sections[s] has section Some(s).
C5_ItemsInTheirGroup ==
    /\ \A k \in 1..Len(config.global) : config.global[k].section = None
    /\ \A s \in DOMAIN config.sections :
          \A k \in 1..Len(config.sections[s]) :
              config.sections[s][k].section = Some(s)

C5_Witness ==
    /\ pc = "to_toml"
    /\ config.global # <<>>
    /\ DOMAIN config.sections # {}

\* C6: the key of every item built by from_env is non-empty unless the name
\* with the prefix stripped is itself empty.
C6_KeyNonEmpty ==
    \A b \in Range(built) : Remainder(b.i) # <<>> => b.item.key # <<>>

\* C7: two calls of env_to_toml with the same prefix and an unchanged
\* environment return identical output.
C7_SameOutputTwice ==
    Len(returned) = 2 => returned[1] = returned[2]

\* C8: when no variable starts with the prefix, the Config has empty global
\* and empty sections and env_to_toml returns the empty string.
C8_NoMatchEmpty ==
    Matching = {} =>
        /\ config.global = <<>>
        /\ DOMAIN config.sections = {}
        /\ Finished => result = <<>>
        /\ pc = "done" => returned[Len(returned)] = Ok(<<>>)

C8_Witness ==
    /\ pc = "done"
    /\ env # <<>>
    /\ Matching = {}
    /\ returned[Len(returned)] = Ok(<<>>)

\* C9: env_to_toml always succeeds: no abort is reachable and every value
\* returned is Ok.
C9_AlwaysSucceeds ==
    /\ pc # "panic"
    /\ \A k \in 1..Len(returned) : returned[k].ok

\* C10: global and each section keep their items in the order the variables
\* were enumerated, and to_toml emits the lines of each group in that order.
C10_EnumerationOrderKept ==
    /\ config.global = ExpectedGroup(None, idx)
    /\ \A s \in DOMAIN config.sections :
          config.sections[s] = ExpectedGroup(Some(s), idx)
    /\ Finished =>
          /\ Texts(Block(0)) = LineTexts(ExpectedGroup(None, Len(env)))
          /\ \A i \in Matching :
                DerivedItem(i).section.some =>
                    \E h \in HeaderPos :
                        /\ emitted[h].text = HeaderText(DerivedItem(i).section.v)
                        /\ Texts(Block(h)) =
                             LineTexts(ExpectedGroup(DerivedItem(i).section, Len(env)))

C10_Witness ==
    /\ pc = "done"
    /\ \E i, j \in Matching :
          /\ i < j
          /\ DerivedItem(i).section = DerivedItem(j).section
          /\ LineText(DerivedItem(i).key, env[i].value)
             # LineText(DerivedItem(j).key, env[j].value)

=============================================================================
